---- MODULE Spec2Model ----
(***************************************************************************)
(* CameraManager of rpi-cam-server.py as a state machine.                  *)
(*                                                                         *)
(* Threads: the preview loop, the HTTP request threads (Flask runs         *)
(* threaded), the recording workers spawned by start_record_clip_async and *)
(* the motion workers spawned by enable_motion.  Every `with lock:` block  *)
(* is an acquire step followed by the steps of its body, the last of which *)
(* releases the lock (also when the body raises).  A device call either    *)
(* returns or raises; a raise is a nondeterministic choice bounded by      *)
(* MaxFaults.                                                              *)
(***************************************************************************)
EXTENDS Integers, FiniteSets, Sequences, TLC

\* ---------------------------------------------------------------- bounds
NumRequests == 2   \* request threads serving at the same time
MaxCalls == 2      \* clip and still requests issued in a run
MaxMotionCalls == 3 \* motion on/off requests issued in a run
MaxWorkers == 2    \* recording worker threads that exist at the same time
MaxMotion == 2     \* motion worker threads that exist at the same time
MaxFaults == 2     \* device calls that raise in a run
NumFrames == 2     \* distinct frames the device delivers
MaxTicks == 2      \* clock advances in a run
TickLen == 40      \* seconds per clock advance
StartTime == 1     \* time.time() at startup

\* ------------------------------------------------------ program constants
Cooldown == 40     \* cool_down_until = now + 40
NoFrame == 0       \* None in the frame slot
NoTime == 0        \* cool_down_until = 0

Preview == <<"preview", 0>>
NoThread == <<"none", 0>>
Requesters == {<<"req", i>> : i \in 1..NumRequests}
Workers == {<<"rec", i>> : i \in 1..MaxWorkers}
MotionWorkers == {<<"motion", i>> : i \in 1..MaxMotion}
Streamer == <<"stream", 0>>
Threads == {Preview, Streamer} \cup Requesters \cup Workers \cup MotionWorkers
Frames == 1..NumFrames

VARIABLES
    pc,               \* position of every thread
    camera_lock,      \* owner of self._camera_lock, or NoThread
    frame_lock,       \* owner of self._frame_lock, or NoThread
    record_lock,      \* owner of self._record_lock, or NoThread
    preview_frame,    \* self._preview_frame (NoFrame is None)
    preview_running,  \* self._preview_running
    recording,        \* self._recording
    motion_enabled,   \* self._motion_enabled
    motion_thread,    \* self._motion_thread (NoThread is None)
    motion_stop_evt,  \* self._motion_stop_evt
    dev_started,      \* the device pipeline runs (picam2.start / stop)
    dev_recording,    \* the worker whose start_recording is in effect, or NoThread
    faults,           \* device calls that have raised so far
    frame,            \* the local `frame` of a thread
    ret,              \* what start_record_clip_async returned to a caller
    output,           \* the local `output` of a recording worker
    prev_gray,        \* the local `prev_gray` of a motion worker
    cool_down_until,  \* the local `cool_down_until` of a motion worker
    now_local,        \* the local `now` of a motion worker
    now,              \* time.time()
    hist              \* observations of the run, read by the properties only

vars == <<pc, camera_lock, frame_lock, record_lock, preview_frame, preview_running,
          recording, motion_enabled, motion_thread, motion_stop_evt, dev_started,
          dev_recording, faults, frame, ret, output, prev_gray, cool_down_until,
          now_local, now, hist>>

locks == <<camera_lock, frame_lock, record_lock>>
device == <<dev_started, dev_recording>>
motion_shared == <<motion_enabled, motion_thread, motion_stop_evt>>
motion_local == <<prev_gray, cool_down_until, now_local>>

\* ------------------------------------------------------------------ Init
\* The state after CameraManager.__init__: the device is configured and
\* started, the preview thread runs, nothing has been published yet.
HistInit ==
    [ restarted   |-> [w \in Workers |-> FALSE],  \* _restart_camera entered by this execution
      raised      |-> [w \in Workers |-> FALSE],  \* a device step of this execution raised
      pfailed     |-> FALSE,                      \* a pull failed and nothing was published since
      published   |-> NoFrame,                    \* the frame the preview loop published last
      calls       |-> 0,                          \* clip and still requests issued so far
      motion_calls |-> 0,                         \* motion on/off requests issued so far
      seen        |-> [t \in Requesters |-> NoFrame],  \* hist.published when capture_still read
      used_camera |-> [t \in Requesters |-> FALSE],    \* capture_still took the device lock
      last_trigger |-> NoTime,                       \* time of the last motion-triggered request
      gap_ok      |-> TRUE,                       \* every two triggers were >= Cooldown apart
      detected    |-> [m \in MotionWorkers |-> FALSE], \* motion_detected of this iteration
      failed_done |-> FALSE,                      \* a recording that raised has cleaned up
      settled     |-> FALSE,                      \* enable_motion returned, no disable since
      off         |-> FALSE ]                     \* disable_motion returned, no enable called since

InitWith(f) ==
    /\ pc = [t \in Threads |->
                IF t = Preview THEN "p_head"
                ELSE IF t \in Requesters THEN "idle"
                ELSE "unborn"]
    /\ camera_lock = NoThread
    /\ frame_lock = NoThread
    /\ record_lock = NoThread
    /\ preview_frame = NoFrame
    /\ preview_running = TRUE
    /\ recording = FALSE
    /\ motion_enabled = FALSE
    /\ motion_thread = NoThread
    /\ motion_stop_evt = FALSE
    /\ dev_started = TRUE
    /\ dev_recording = NoThread
    /\ faults = f
    /\ frame = [t \in Threads |-> NoFrame]
    /\ ret = [t \in Requesters \cup MotionWorkers |-> "none"]
    /\ output = [w \in Workers |-> "none"]
    /\ prev_gray = [m \in MotionWorkers |-> NoFrame]
    /\ cool_down_until = [m \in MotionWorkers |-> NoTime]
    /\ now_local = [m \in MotionWorkers |-> NoTime]
    /\ now = StartTime
    /\ hist = HistInit

Init == InitWith(0)

\* A device that never raises: the fault budget is spent from the start.
InitHealthy == InitWith(MaxFaults)

\* --------------------------------------------------------------- helpers
Goto(t, l) == pc' = [pc EXCEPT ![t] = l]

\* The run issues at most MaxCalls clip and still requests and MaxMotionCalls
\* motion requests.
CallBudget == hist.calls < MaxCalls
MotionCallBudget == hist.motion_calls < MaxMotionCalls

\* Request threads are interchangeable: a request is served by the idle thread
\* of the lowest number.
Serves(t) ==
    /\ pc[t] = "idle"
    /\ \A u \in Requesters : u[2] < t[2] => pc[u] # "idle"

\* A device call may raise while the fault budget lasts.
CanFail == faults < MaxFaults
Fault == faults' = faults + 1
NoFault == faults' = faults

\* ---------------------------------------------------- _restart_camera
\* Where a thread continues after _restart_camera returned / raised.
\* The preview loop sleeps 0.5 s after a raise (line 142) and loops; record_clip
\* swallows the raise (lines 219-220) and returns through its finally block.
AfterRestart(t, ok) ==
    IF t = Preview THEN (IF ok THEN "p_head" ELSE "p_sleep2")
    ELSE "rc_close"

RestartLock(t) ==
    /\ pc[t] = "rs_lock"
    /\ camera_lock = NoThread
    /\ camera_lock' = t
    /\ Goto(t, "rs_stoprec")
    /\ UNCHANGED <<frame_lock, record_lock, preview_frame, preview_running, recording,
                   motion_shared, device, faults, frame, ret, output, motion_local,
                   now, hist>>

\* try: picam2.stop_recording() except: pass
RestartStopRecording(t) ==
    /\ pc[t] = "rs_stoprec"
    /\ camera_lock = t
    /\ \/ /\ dev_recording' = NoThread
          /\ NoFault
       \/ /\ CanFail
          /\ Fault
          /\ UNCHANGED dev_recording
    /\ Goto(t, "rs_stop")
    /\ UNCHANGED <<locks, preview_frame, preview_running, recording, motion_shared,
                   dev_started, frame, ret, output, motion_local, now, hist>>

\* try: picam2.stop() except: pass
RestartStop(t) ==
    /\ pc[t] = "rs_stop"
    /\ camera_lock = t
    /\ \/ /\ dev_started' = FALSE
          /\ NoFault
       \/ /\ CanFail
          /\ Fault
          /\ UNCHANGED dev_started
    /\ Goto(t, "rs_config")
    /\ UNCHANGED <<locks, preview_frame, preview_running, recording, motion_shared,
                   dev_recording, frame, ret, output, motion_local, now, hist>>

\* picam2.configure(video_config); a raise leaves the `with` block
RestartConfigure(t) ==
    /\ pc[t] = "rs_config"
    /\ camera_lock = t
    /\ \/ /\ NoFault
          /\ Goto(t, "rs_start")
          /\ UNCHANGED camera_lock
       \/ /\ CanFail
          /\ Fault
          /\ camera_lock' = NoThread
          /\ Goto(t, AfterRestart(t, FALSE))
    /\ UNCHANGED <<frame_lock, record_lock, preview_frame, preview_running, recording,
                   motion_shared, device, frame, ret, output, motion_local, now, hist>>

\* picam2.start(), then the `with` block ends
RestartStart(t) ==
    /\ pc[t] = "rs_start"
    /\ camera_lock = t
    /\ camera_lock' = NoThread
    /\ \/ /\ NoFault
          /\ dev_started' = TRUE
          /\ Goto(t, AfterRestart(t, TRUE))
       \/ /\ CanFail
          /\ Fault
          /\ UNCHANGED dev_started
          /\ Goto(t, AfterRestart(t, FALSE))
    /\ UNCHANGED <<frame_lock, record_lock, preview_frame, preview_running, recording,
                   motion_shared, dev_recording, frame, ret, output, motion_local,
                   now, hist>>

RestartCamera(t) ==
    \/ RestartLock(t)
    \/ RestartStopRecording(t)
    \/ RestartStop(t)
    \/ RestartConfigure(t)
    \/ RestartStart(t)

\* ------------------------------------------------------- _preview_loop
\* with self._frame_lock: (line 127)
PreviewHeadLock ==
    /\ pc[Preview] = "p_head"
    /\ frame_lock = NoThread
    /\ frame_lock' = Preview
    /\ Goto(Preview, "p_check")
    /\ UNCHANGED <<camera_lock, record_lock, preview_frame, preview_running, recording,
                   motion_shared, device, faults, frame, ret, output, motion_local,
                   now, hist>>

\* if not self._preview_running: break
PreviewCheck ==
    /\ pc[Preview] = "p_check"
    /\ frame_lock = Preview
    /\ frame_lock' = NoThread
    /\ Goto(Preview, IF preview_running THEN "p_cam_lock" ELSE "p_exit")
    /\ UNCHANGED <<camera_lock, record_lock, preview_frame, preview_running, recording,
                   motion_shared, device, faults, frame, ret, output, motion_local,
                   now, hist>>

\* with self._camera_lock: (line 132)
PreviewCameraLock ==
    /\ pc[Preview] = "p_cam_lock"
    /\ camera_lock = NoThread
    /\ camera_lock' = Preview
    /\ Goto(Preview, "p_capture")
    /\ UNCHANGED <<frame_lock, record_lock, preview_frame, preview_running, recording,
                   motion_shared, device, faults, frame, ret, output, motion_local,
                   now, hist>>

\* A preview loop that publishes inside its `with self._camera_lock:` block:
\* a pulled frame is taken to the frame-slot lock with the device lock still held.
PreviewCapture_Nested ==
    /\ pc[Preview] = "p_capture"
    /\ camera_lock = Preview
    /\ \/ /\ dev_started
          /\ \E f \in Frames : frame' = [frame EXCEPT ![Preview] = f]
          /\ NoFault
          /\ Goto(Preview, "p_frame_lock")
          /\ UNCHANGED <<hist, camera_lock>>
       \/ /\ dev_started
          /\ CanFail
          /\ Fault
          /\ Goto(Preview, "p_sleep1")
          /\ camera_lock' = NoThread
          /\ hist' = [hist EXCEPT !.pfailed = TRUE]
          /\ UNCHANGED frame
       \/ /\ ~dev_started
          /\ NoFault
          /\ Goto(Preview, "p_sleep1")
          /\ camera_lock' = NoThread
          /\ hist' = [hist EXCEPT !.pfailed = TRUE]
          /\ UNCHANGED frame
    /\ UNCHANGED <<frame_lock, record_lock, preview_frame, preview_running, recording,
                   motion_shared, device, ret, output, motion_local, now>>

\* frame = picam2.capture_array("main"): a frame of a started device, or a raise
\* (a stopped device yields no frame: the pull times out).
PreviewCapture ==
    /\ pc[Preview] = "p_capture"
    /\ camera_lock = Preview
    /\ camera_lock' = NoThread
    /\ \/ /\ dev_started
          /\ \E f \in Frames : frame' = [frame EXCEPT ![Preview] = f]
          /\ NoFault
          /\ Goto(Preview, "p_frame_lock")
          /\ UNCHANGED hist
       \/ /\ dev_started
          /\ CanFail
          /\ Fault
          /\ Goto(Preview, "p_sleep1")
          /\ hist' = [hist EXCEPT !.pfailed = TRUE]
          /\ UNCHANGED frame
       \/ /\ ~dev_started
          /\ NoFault
          /\ Goto(Preview, "p_sleep1")
          /\ hist' = [hist EXCEPT !.pfailed = TRUE]
          /\ UNCHANGED frame
    /\ UNCHANGED <<frame_lock, record_lock, preview_frame, preview_running, recording,
                   motion_shared, device, ret, output, motion_local, now>>

\* A preview loop that publishes without the frame-slot lock.
PreviewFrameLock_Skipped ==
    /\ pc[Preview] = "p_frame_lock"
    /\ Goto(Preview, "p_publish")
    /\ UNCHANGED <<locks, preview_frame, preview_running, recording,
                   motion_shared, device, faults, frame, ret, output, motion_local,
                   now, hist>>

\* with self._frame_lock: (line 134)
PreviewFrameLock ==
    /\ pc[Preview] = "p_frame_lock"
    /\ frame_lock = NoThread
    /\ frame_lock' = Preview
    /\ Goto(Preview, "p_publish")
    /\ UNCHANGED <<camera_lock, record_lock, preview_frame, preview_running, recording,
                   motion_shared, device, faults, frame, ret, output, motion_local,
                   now, hist>>

\* self._preview_frame = frame
PreviewPublish ==
    /\ pc[Preview] = "p_publish"
    /\ frame_lock = Preview
    /\ frame_lock' = NoThread
    /\ preview_frame' = frame[Preview]
    /\ frame' = [frame EXCEPT ![Preview] = NoFrame]   \* reassigned before its next use
    /\ hist' = [hist EXCEPT !.pfailed = FALSE, !.published = frame[Preview]]
    /\ Goto(Preview, "p_head")
    /\ UNCHANGED <<camera_lock, record_lock, preview_running, recording,
                   motion_shared, device, faults, ret, output, motion_local, now>>

\* A preview loop whose except branch ends the thread instead of backing off
\* and retrying: the behaviour lines 136-140 exclude.
PreviewSleepAfterFailure_Exits ==
    /\ pc[Preview] = "p_sleep1"
    /\ Goto(Preview, "p_exit")
    /\ UNCHANGED <<locks, preview_frame, preview_running, recording, motion_shared,
                   device, faults, frame, ret, output, motion_local, now, hist>>

\* except Exception: time.sleep(0.1), then self._restart_camera()
PreviewSleepAfterFailure ==
    /\ pc[Preview] = "p_sleep1"
    /\ Goto(Preview, "rs_lock")
    /\ UNCHANGED <<locks, preview_frame, preview_running, recording, motion_shared,
                   device, faults, frame, ret, output, motion_local, now, hist>>

\* except Exception: time.sleep(0.5), then the next iteration
PreviewSleepAfterRestartFailure ==
    /\ pc[Preview] = "p_sleep2"
    /\ Goto(Preview, "p_head")
    /\ UNCHANGED <<locks, preview_frame, preview_running, recording, motion_shared,
                   device, faults, frame, ret, output, motion_local, now, hist>>

PreviewLoop ==
    \/ PreviewHeadLock
    \/ PreviewCheck
    \/ PreviewCameraLock
    \/ PreviewCapture
    \/ PreviewFrameLock
    \/ PreviewPublish
    \/ PreviewSleepAfterFailure
    \/ PreviewSleepAfterRestartFailure
    \/ RestartCamera(Preview)

\* ----------------------------------------------------------- record_clip
\* A free slot for a new thread object: never started, or finished.
FreeThread(w) ==
    \/ pc[w] \in {"unborn", "done", "dead"}
    \/ pc[w] = "created" /\ motion_thread # w   \* never started, no longer referenced

\* Thread objects are interchangeable: a new thread takes the free slot of the
\* lowest number.
NewThread(w, pool) ==
    /\ FreeThread(w)
    /\ \A u \in pool : u[2] < w[2] => ~FreeThread(u)

\* A record_clip whose cleanup is not in a finally block: a raise ends the thread.
FinallyEntry_Skipped == "done"

\* A record_clip whose handler of a raise clears the flag without closing the sink.
FinallyEntry_NoClose == "rc_clear_lock"

\* Where record_clip continues when a statement of its try block raises:
\* the finally block (line 224).
FinallyEntry == "rc_close"

\* with self._record_lock: (line 193)
RecordClipLock(w) ==
    /\ pc[w] = "rc_lock"
    /\ record_lock = NoThread
    /\ record_lock' = w
    /\ Goto(w, "rc_test")
    /\ UNCHANGED <<camera_lock, frame_lock, preview_frame, preview_running, recording,
                   motion_shared, device, faults, frame, ret, output, motion_local,
                   now, hist>>

\* A recorder that does not look at the flag before it takes the session.
RecordClipTestAndSet_Unchecked(w) ==
    /\ pc[w] = "rc_test"
    /\ record_lock = w
    /\ record_lock' = NoThread
    /\ recording' = TRUE
    /\ Goto(w, "rc_output")
    /\ UNCHANGED <<camera_lock, frame_lock, preview_frame, preview_running,
                   motion_shared, device, faults, frame, ret, output, motion_local,
                   now, hist>>

\* if self._recording: return None / self._recording = True (lines 194-196)
RecordClipTestAndSet(w) ==
    /\ pc[w] = "rc_test"
    /\ record_lock = w
    /\ record_lock' = NoThread
    /\ IF recording
       THEN /\ Goto(w, "rc_return_none")
            /\ UNCHANGED recording
       ELSE /\ recording' = TRUE
            /\ Goto(w, "rc_output")
    /\ UNCHANGED <<camera_lock, frame_lock, preview_frame, preview_running,
                   motion_shared, device, faults, frame, ret, output, motion_local,
                   now, hist>>

\* return None (line 195): the thread ends
RecordClipReturnNone(w) ==
    /\ pc[w] = "rc_return_none"
    /\ Goto(w, "done")
    /\ UNCHANGED <<locks, preview_frame, preview_running, recording, motion_shared,
                   device, faults, frame, ret, output, motion_local, now, hist>>

\* output = None; encoder = H264Encoder(...); output = FfmpegOutput(path)
RecordClipOutput(w) ==
    /\ pc[w] = "rc_output"
    /\ output' = [output EXCEPT ![w] = "open"]
    /\ Goto(w, "rc_start_lock")
    /\ UNCHANGED <<locks, preview_frame, preview_running, recording, motion_shared,
                   device, faults, frame, ret, motion_local, now, hist>>

\* with self._camera_lock: (line 207)
RecordClipStartLock(w) ==
    /\ pc[w] = "rc_start_lock"
    /\ camera_lock = NoThread
    /\ camera_lock' = w
    /\ Goto(w, "rc_start")
    /\ UNCHANGED <<frame_lock, record_lock, preview_frame, preview_running, recording,
                   motion_shared, device, faults, frame, ret, output, motion_local,
                   now, hist>>

\* A record_clip whose duration sleep is inside the `with self._camera_lock:`
\* block of start_recording: the lock is kept when start_recording returns.
RecordClipStart_Holding(w) ==
    /\ pc[w] = "rc_start"
    /\ camera_lock = w
    /\ \/ /\ NoFault
          /\ dev_recording' = w
          /\ dev_started' = TRUE
          /\ Goto(w, "rc_sleep")
          /\ UNCHANGED <<hist, camera_lock>>
       \/ /\ CanFail
          /\ Fault
          /\ Goto(w, FinallyEntry)
          /\ camera_lock' = NoThread
          /\ hist' = [hist EXCEPT !.raised[w] = TRUE]
          /\ UNCHANGED device
    /\ UNCHANGED <<frame_lock, record_lock, preview_frame, preview_running, recording,
                   motion_shared, frame, ret, output, motion_local, now>>

\* picam2.start_recording(encoder, output)
RecordClipStart(w) ==
    /\ pc[w] = "rc_start"
    /\ camera_lock = w
    /\ camera_lock' = NoThread
    /\ \/ /\ NoFault
          /\ dev_recording' = w
          /\ dev_started' = TRUE
          /\ Goto(w, "rc_sleep")
          /\ UNCHANGED hist
       \/ /\ CanFail
          /\ Fault
          /\ Goto(w, FinallyEntry)
          /\ hist' = [hist EXCEPT !.raised[w] = TRUE]
          /\ UNCHANGED device
    /\ UNCHANGED <<frame_lock, record_lock, preview_frame, preview_running, recording,
                   motion_shared, frame, ret, output, motion_local, now>>

\* time.sleep(max(1, int(duration)))
RecordClipSleep(w) ==
    /\ pc[w] = "rc_sleep"
    /\ Goto(w, "rc_stop_lock")
    /\ UNCHANGED <<locks, preview_frame, preview_running, recording, motion_shared,
                   device, faults, frame, ret, output, motion_local, now, hist>>

\* with self._camera_lock: (line 212)
RecordClipStopLock(w) ==
    /\ pc[w] = "rc_stop_lock"
    /\ camera_lock = NoThread
    /\ camera_lock' = w
    /\ Goto(w, "rc_stop")
    /\ UNCHANGED <<frame_lock, record_lock, preview_frame, preview_running, recording,
                   motion_shared, device, faults, frame, ret, output, motion_local,
                   now, hist>>

\* picam2.stop_recording(); on return, self._restart_camera() follows (line 218)
RecordClipStop(w) ==
    /\ pc[w] = "rc_stop"
    /\ camera_lock = w
    /\ camera_lock' = NoThread
    /\ \/ /\ NoFault
          /\ dev_recording' = NoThread
          /\ Goto(w, "rs_lock")
          /\ hist' = [hist EXCEPT !.restarted[w] = TRUE]
       \/ /\ CanFail
          /\ Fault
          /\ Goto(w, FinallyEntry)
          /\ hist' = [hist EXCEPT !.raised[w] = TRUE]
          /\ UNCHANGED dev_recording
    /\ UNCHANGED <<frame_lock, record_lock, preview_frame, preview_running, recording,
                   motion_shared, dev_started, frame, ret, output, motion_local, now>>

\* finally: output.close() (lines 225-229)
RecordClipClose(w) ==
    /\ pc[w] = "rc_close"
    /\ output' = [output EXCEPT ![w] = IF output[w] = "open" THEN "closed" ELSE output[w]]
    /\ Goto(w, "rc_clear_lock")
    /\ UNCHANGED <<locks, preview_frame, preview_running, recording, motion_shared,
                   device, faults, frame, ret, motion_local, now, hist>>

\* with self._record_lock: (line 231)
RecordClipClearLock(w) ==
    /\ pc[w] = "rc_clear_lock"
    /\ record_lock = NoThread
    /\ record_lock' = w
    /\ Goto(w, "rc_clear")
    /\ UNCHANGED <<camera_lock, frame_lock, preview_frame, preview_running, recording,
                   motion_shared, device, faults, frame, ret, output, motion_local,
                   now, hist>>

\* self._recording = False (line 232)
RecordClipClear(w) ==
    /\ pc[w] = "rc_clear"
    /\ record_lock = w
    /\ record_lock' = NoThread
    /\ recording' = FALSE
    /\ Goto(w, "done")
    /\ output' = [output EXCEPT ![w] = "none"]       \* the thread and its locals end
    /\ hist' = [hist EXCEPT !.restarted[w] = FALSE, !.raised[w] = FALSE,
                            !.failed_done = @ \/ hist.raised[w]]
    /\ UNCHANGED <<camera_lock, frame_lock, preview_frame, preview_running,
                   motion_shared, device, faults, frame, ret, motion_local, now>>

RecordClip(w) ==
    \/ RecordClipLock(w)
    \/ RecordClipTestAndSet(w)
    \/ RecordClipReturnNone(w)
    \/ RecordClipOutput(w)
    \/ RecordClipStartLock(w)
    \/ RecordClipStart(w)
    \/ RecordClipSleep(w)
    \/ RecordClipStopLock(w)
    \/ RecordClipStop(w)
    \/ RestartCamera(w)
    \/ RecordClipClose(w)
    \/ RecordClipClearLock(w)
    \/ RecordClipClear(w)

\* ----------------------------------------------- start_record_clip_async
\* Where the caller continues after start_record_clip_async returned: a request
\* thread answers (api_record_clip), the motion worker sets its cooldown (line 291).
AfterAsync(t) == IF t \in Requesters THEN "idle" ELSE "m_cooldown"

\* api_record_clip: camera.start_record_clip_async(duration)
ApiRecordClip(t) ==
    /\ Serves(t)
    /\ CallBudget
    /\ ret' = [ret EXCEPT ![t] = "none"]
    /\ Goto(t, "a_lock")
    /\ hist' = [hist EXCEPT !.calls = @ + 1]
    /\ UNCHANGED <<locks, preview_frame, preview_running, recording, motion_shared,
                   device, faults, frame, output, motion_local, now>>

\* with self._record_lock: (line 239)
AsyncLock(t) ==
    /\ pc[t] = "a_lock"
    /\ record_lock = NoThread
    /\ record_lock' = t
    /\ Goto(t, "a_check")
    /\ UNCHANGED <<camera_lock, frame_lock, preview_frame, preview_running, recording,
                   motion_shared, device, faults, frame, ret, output, motion_local,
                   now, hist>>

\* A busy check that lets the request through whatever the flag says.
AsyncCheck_Ignored(t) ==
    /\ pc[t] = "a_check"
    /\ record_lock = t
    /\ record_lock' = NoThread
    /\ Goto(t, "a_spawn")
    /\ UNCHANGED <<camera_lock, frame_lock, preview_frame, preview_running, recording,
                   motion_shared, device, faults, frame, ret, output, motion_local,
                   now, hist>>

\* if self._recording: return False (lines 240-241)
AsyncCheck(t) ==
    /\ pc[t] = "a_check"
    /\ record_lock = t
    /\ record_lock' = NoThread
    /\ IF recording
       THEN /\ ret' = [ret EXCEPT ![t] = "false"]
            /\ Goto(t, AfterAsync(t))
       ELSE /\ Goto(t, "a_spawn")
            /\ UNCHANGED ret
    /\ UNCHANGED <<camera_lock, frame_lock, preview_frame, preview_running, recording,
                   motion_shared, device, faults, frame, output, motion_local,
                   now, hist>>

\* threading.Thread(target=self.record_clip, ...).start(); return True
AsyncSpawn(t) ==
    /\ pc[t] = "a_spawn"
    /\ \E w \in Workers :
        /\ NewThread(w, Workers)
        /\ pc' = [pc EXCEPT ![t] = AfterAsync(t), ![w] = "rc_lock"]
    /\ ret' = [ret EXCEPT ![t] = "true"]
    /\ UNCHANGED <<locks, preview_frame, preview_running, recording, motion_shared,
                   device, faults, frame, output, motion_local, now, hist>>

StartRecordClipAsync(t) ==
    \/ AsyncLock(t)
    \/ AsyncCheck(t)
    \/ AsyncSpawn(t)

\* --------------------------------------------------------- capture_still
\* A still capture that always goes to the device.
\* A capture_still that goes to the device whatever the slot holds.
StillNeedsPull_Always(f) == f = f

\* if frame is None: (line 179)
StillNeedsPull(f) == f = NoFrame

\* api_capture_still: camera.capture_still()
ApiCaptureStill(t) ==
    /\ Serves(t)
    /\ CallBudget
    /\ Goto(t, "cs_lock")
    /\ hist' = [hist EXCEPT !.calls = @ + 1]
    /\ UNCHANGED <<locks, preview_frame, preview_running, recording, motion_shared,
                   device, faults, frame, ret, output, motion_local, now>>

\* with self._frame_lock: (line 175)
StillFrameLock(t) ==
    /\ pc[t] = "cs_lock"
    /\ frame_lock = NoThread
    /\ frame_lock' = t
    /\ Goto(t, "cs_read")
    /\ UNCHANGED <<camera_lock, record_lock, preview_frame, preview_running, recording,
                   motion_shared, device, faults, frame, ret, output, motion_local,
                   now, hist>>

\* frame = None if self._preview_frame is None else self._preview_frame.copy()
StillRead(t) ==
    /\ pc[t] = "cs_read"
    /\ frame_lock = t
    /\ frame_lock' = NoThread
    /\ frame' = [frame EXCEPT ![t] = preview_frame]
    /\ hist' = [hist EXCEPT !.seen[t] = hist.published]
    /\ Goto(t, IF StillNeedsPull(preview_frame) THEN "cs_cam_lock" ELSE "cs_write")
    /\ UNCHANGED <<camera_lock, record_lock, preview_frame, preview_running, recording,
                   motion_shared, device, faults, ret, output, motion_local, now>>

\* A capture_still whose fallback goes to the device without the device lock.
StillCameraLock_Skipped(t) ==
    /\ pc[t] = "cs_cam_lock"
    /\ hist' = [hist EXCEPT !.used_camera[t] = TRUE]
    /\ Goto(t, "cs_pull")
    /\ UNCHANGED <<locks, preview_frame, preview_running, recording,
                   motion_shared, device, faults, frame, ret, output, motion_local, now>>

\* with self._camera_lock: (line 180)
StillCameraLock(t) ==
    /\ pc[t] = "cs_cam_lock"
    /\ camera_lock = NoThread
    /\ camera_lock' = t
    /\ hist' = [hist EXCEPT !.used_camera[t] = TRUE]
    /\ Goto(t, "cs_pull")
    /\ UNCHANGED <<frame_lock, record_lock, preview_frame, preview_running, recording,
                   motion_shared, device, faults, frame, ret, output, motion_local, now>>

\* A capture_still whose fallback pull is not in a `with` block: a raise of
\* capture_array propagates with the device lock still held.
StillPull_Leaky(t) ==
    /\ pc[t] = "cs_pull"
    /\ camera_lock = t
    /\ \/ /\ dev_started
          /\ \E f \in Frames : frame' = [frame EXCEPT ![t] = f]
          /\ NoFault
          /\ camera_lock' = NoThread
          /\ Goto(t, "cs_write")
       \/ /\ dev_started
          /\ CanFail
          /\ Fault
          /\ Goto(t, "cs_raise")
          /\ UNCHANGED <<frame, camera_lock>>
       \/ /\ ~dev_started
          /\ NoFault
          /\ Goto(t, "cs_raise")
          /\ UNCHANGED <<frame, camera_lock>>
    /\ UNCHANGED <<frame_lock, record_lock, preview_frame, preview_running, recording,
                   motion_shared, device, ret, output, motion_local, now, hist>>

\* frame = picam2.capture_array("main"); a raise propagates to the caller
StillPull(t) ==
    /\ pc[t] = "cs_pull"
    /\ camera_lock = t
    /\ camera_lock' = NoThread
    /\ \/ /\ dev_started
          /\ \E f \in Frames : frame' = [frame EXCEPT ![t] = f]
          /\ NoFault
          /\ Goto(t, "cs_write")
       \/ /\ dev_started
          /\ CanFail
          /\ Fault
          /\ Goto(t, "cs_raise")
          /\ UNCHANGED frame
       \/ /\ ~dev_started
          /\ NoFault
          /\ Goto(t, "cs_raise")
          /\ UNCHANGED frame
    /\ UNCHANGED <<frame_lock, record_lock, preview_frame, preview_running, recording,
                   motion_shared, device, ret, output, motion_local, now, hist>>

\* the raise of capture_array leaves capture_still: no file, no path
StillRaise(t) ==
    /\ pc[t] = "cs_raise"
    /\ hist' = [hist EXCEPT !.seen[t] = NoFrame, !.used_camera[t] = FALSE]
    /\ Goto(t, "idle")
    /\ UNCHANGED <<locks, preview_frame, preview_running, recording, motion_shared,
                   device, faults, frame, ret, output, motion_local, now>>

\* cv2.imwrite(str(path), frame); return path
StillWrite(t) ==
    /\ pc[t] = "cs_write"
    /\ hist' = [hist EXCEPT !.seen[t] = NoFrame, !.used_camera[t] = FALSE]
    /\ frame' = [frame EXCEPT ![t] = NoFrame]        \* the call and its locals end
    /\ Goto(t, "idle")
    /\ UNCHANGED <<locks, preview_frame, preview_running, recording, motion_shared,
                   device, faults, ret, output, motion_local, now>>

CaptureStill(t) ==
    \/ StillFrameLock(t)
    \/ StillRead(t)
    \/ StillCameraLock(t)
    \/ StillPull(t)
    \/ StillRaise(t)
    \/ StillWrite(t)

\* ------------------------------------------- enable_motion / disable_motion
\* Thread.is_alive(): started and not finished
IsAlive(m) == m \in MotionWorkers /\ pc[m] \notin {"unborn", "created", "dead"}

InMotionCall(t) == pc[t] \in {"en_set", "en_check", "en_clear", "en_create", "en_start",
                              "dis_set", "dis_evt"}
InDisable(t) == pc[t] \in {"dis_set", "dis_evt"}

\* enable_motion returned normally to t; no disable_motion is in progress
EnableReturned(t) ==
    hist' = [hist EXCEPT !.settled = \A u \in Requesters \ {t} : ~InDisable(u)]

\* api_motion, mode == "on": camera.enable_motion()
ApiMotionOn(t) ==
    /\ Serves(t)
    /\ MotionCallBudget
    /\ Goto(t, "en_set")
    /\ hist' = [hist EXCEPT !.motion_calls = @ + 1, !.off = FALSE]
    /\ UNCHANGED <<locks, preview_frame, preview_running, recording, motion_shared,
                   device, faults, frame, ret, output, motion_local, now>>

\* self._motion_enabled = True (line 249)
EnableSet(t) ==
    /\ pc[t] = "en_set"
    /\ motion_enabled' = TRUE
    /\ Goto(t, "en_check")
    /\ UNCHANGED <<locks, preview_frame, preview_running, recording, motion_thread,
                   motion_stop_evt, device, faults, frame, ret, output, motion_local,
                   now, hist>>

\* if self._motion_thread is None or not self._motion_thread.is_alive(): (line 250)
EnableCheck(t) ==
    /\ pc[t] = "en_check"
    /\ IF motion_thread = NoThread \/ ~IsAlive(motion_thread)
       THEN /\ Goto(t, "en_clear")
            /\ UNCHANGED hist
       ELSE /\ Goto(t, "idle")
            /\ EnableReturned(t)
    /\ UNCHANGED <<locks, preview_frame, preview_running, recording, motion_shared,
                   device, faults, frame, ret, output, motion_local, now>>

\* self._motion_stop_evt.clear() (line 251)
EnableClear(t) ==
    /\ pc[t] = "en_clear"
    /\ motion_stop_evt' = FALSE
    /\ Goto(t, "en_create")
    /\ UNCHANGED <<locks, preview_frame, preview_running, recording, motion_enabled,
                   motion_thread, device, faults, frame, ret, output, motion_local,
                   now, hist>>

\* self._motion_thread = threading.Thread(target=self._motion_loop, ...) (line 252)
EnableCreate(t) ==
    /\ pc[t] = "en_create"
    /\ \E m \in MotionWorkers :
        /\ NewThread(m, MotionWorkers)
        /\ motion_thread' = m
        /\ pc' = [pc EXCEPT ![t] = "en_start", ![m] = "created"]
    /\ UNCHANGED <<locks, preview_frame, preview_running, recording, motion_enabled,
                   motion_stop_evt, device, faults, frame, ret, output, motion_local,
                   now, hist>>

\* self._motion_thread.start() (line 253): the attribute is read again; starting
\* a thread that was already started raises RuntimeError in the caller.
\* The started thread begins _motion_loop: prev_gray = None, cool_down_until = 0.
EnableStart(t) ==
    /\ pc[t] = "en_start"
    /\ IF pc[motion_thread] = "created"
       THEN /\ pc' = [pc EXCEPT ![t] = "idle", ![motion_thread] = "m_head"]
            /\ prev_gray' = [prev_gray EXCEPT ![motion_thread] = NoFrame]
            /\ cool_down_until' = [cool_down_until EXCEPT ![motion_thread] = NoTime]
            /\ EnableReturned(t)
       ELSE /\ Goto(t, "idle")
            /\ UNCHANGED <<prev_gray, cool_down_until, hist>>
    /\ UNCHANGED <<locks, preview_frame, preview_running, recording, motion_shared,
                   device, faults, frame, ret, output, now_local, now>>

EnableMotion(t) ==
    \/ EnableSet(t)
    \/ EnableCheck(t)
    \/ EnableClear(t)
    \/ EnableCreate(t)
    \/ EnableStart(t)

\* api_motion, any other mode: camera.disable_motion()
ApiMotionOff(t) ==
    /\ Serves(t)
    /\ MotionCallBudget
    /\ Goto(t, "dis_set")
    /\ hist' = [hist EXCEPT !.motion_calls = @ + 1, !.settled = FALSE]
    /\ UNCHANGED <<locks, preview_frame, preview_running, recording, motion_shared,
                   device, faults, frame, ret, output, motion_local, now>>

\* self._motion_enabled = False (line 256)
DisableSet(t) ==
    /\ pc[t] = "dis_set"
    /\ motion_enabled' = FALSE
    /\ Goto(t, "dis_evt")
    /\ UNCHANGED <<locks, preview_frame, preview_running, recording, motion_thread,
                   motion_stop_evt, device, faults, frame, ret, output, motion_local,
                   now, hist>>

\* self._motion_stop_evt.set() (line 257)
DisableEvt(t) ==
    /\ pc[t] = "dis_evt"
    /\ motion_stop_evt' = TRUE
    /\ hist' = [hist EXCEPT !.off = TRUE]
    /\ Goto(t, "idle")
    /\ UNCHANGED <<locks, preview_frame, preview_running, recording, motion_enabled,
                   motion_thread, device, faults, frame, ret, output, motion_local,
                   now>>

DisableMotion(t) ==
    \/ DisableSet(t)
    \/ DisableEvt(t)

\* -------------------------------------------------------- mjpeg_generator
\* GET /stream.mjpg: a client starts consuming camera.mjpeg_generator()
StreamOpen ==
    /\ pc[Streamer] = "unborn"
    /\ Goto(Streamer, "g_lock")
    /\ UNCHANGED <<locks, preview_frame, preview_running, recording, motion_shared,
                   device, faults, frame, ret, output, motion_local, now, hist>>

\* with self._frame_lock: (line 147)
StreamFrameLock ==
    /\ pc[Streamer] = "g_lock"
    /\ frame_lock = NoThread
    /\ frame_lock' = Streamer
    /\ Goto(Streamer, "g_read")
    /\ UNCHANGED <<camera_lock, record_lock, preview_frame, preview_running, recording,
                   motion_shared, device, faults, frame, ret, output, motion_local,
                   now, hist>>

\* frame = None if self._preview_frame is None else self._preview_frame.copy()
StreamRead ==
    /\ pc[Streamer] = "g_read"
    /\ frame_lock = Streamer
    /\ frame_lock' = NoThread
    /\ frame' = [frame EXCEPT ![Streamer] = preview_frame]
    /\ Goto(Streamer, IF preview_frame = NoFrame THEN "g_sleep" ELSE "g_encode")
    /\ UNCHANGED <<camera_lock, record_lock, preview_frame, preview_running, recording,
                   motion_shared, device, faults, ret, output, motion_local, now, hist>>

\* ok, jpeg = cv2.imencode(".jpg", frame); the chunk is yielded if ok (lines 154-162)
StreamEncode ==
    /\ pc[Streamer] = "g_encode"
    /\ frame' = [frame EXCEPT ![Streamer] = NoFrame]   \* reassigned before its next use
    /\ Goto(Streamer, "g_sleep")
    /\ UNCHANGED <<locks, preview_frame, preview_running, recording, motion_shared,
                   device, faults, ret, output, motion_local, now, hist>>

\* time.sleep(0.02) / time.sleep(0.01) / time.sleep(0.03), then the next iteration
StreamSleep ==
    /\ pc[Streamer] = "g_sleep"
    /\ Goto(Streamer, "g_lock")
    /\ UNCHANGED <<locks, preview_frame, preview_running, recording, motion_shared,
                   device, faults, frame, ret, output, motion_local, now, hist>>

MjpegGenerator ==
    \/ StreamOpen
    \/ StreamFrameLock
    \/ StreamRead
    \/ StreamEncode
    \/ StreamSleep

\* ---------------------------------------------------------- _motion_loop
\* while not self._motion_stop_evt.is_set(): (line 263)
MotionHead(m) ==
    /\ pc[m] = "m_head"
    /\ IF motion_stop_evt
       THEN /\ Goto(m, "dead")                       \* the thread and its locals end
            /\ prev_gray' = [prev_gray EXCEPT ![m] = NoFrame]
            /\ cool_down_until' = [cool_down_until EXCEPT ![m] = NoTime]
            /\ ret' = [ret EXCEPT ![m] = "none"]
       ELSE /\ Goto(m, "m_lock")
            /\ UNCHANGED <<prev_gray, cool_down_until, ret>>
    /\ UNCHANGED <<locks, preview_frame, preview_running, recording, motion_shared,
                   device, faults, frame, output, now_local, now, hist>>

\* with self._frame_lock: (line 264)
MotionFrameLock(m) ==
    /\ pc[m] = "m_lock"
    /\ frame_lock = NoThread
    /\ frame_lock' = m
    /\ Goto(m, "m_read")
    /\ UNCHANGED <<camera_lock, record_lock, preview_frame, preview_running, recording,
                   motion_shared, device, faults, frame, ret, output, motion_local,
                   now, hist>>

\* frame = None if self._preview_frame is None else self._preview_frame.copy()
MotionRead(m) ==
    /\ pc[m] = "m_read"
    /\ frame_lock = m
    /\ frame_lock' = NoThread
    /\ frame' = [frame EXCEPT ![m] = preview_frame]
    /\ Goto(m, "m_process")
    /\ UNCHANGED <<camera_lock, record_lock, preview_frame, preview_running, recording,
                   motion_shared, device, faults, ret, output, motion_local, now, hist>>

\* motion_detected = any(contourArea(c) > 1500 ...): the difference of two equal
\* smoothed frames is empty; two different frames may or may not show motion.
MotionDetected(prev, cur) == IF prev = cur THEN {FALSE} ELSE BOOLEAN

\* A trigger test that also fires at the very instant of the deadline.
Trigger_AtDeadline(detected, t_now, deadline) == detected /\ t_now >= deadline

\* if motion_detected and now > cool_down_until: (line 288)
Trigger(detected, t_now, deadline) == detected /\ t_now > deadline

\* Lines 267-288, all on locals but for time.time(): no frame or no previous
\* frame sleeps and continues; otherwise motion is decided and, past the
\* cooldown deadline, a clip is requested.
MotionProcess(m) ==
    /\ pc[m] = "m_process"
    /\ IF frame[m] = NoFrame
       THEN /\ Goto(m, "m_sleep")
            /\ UNCHANGED <<prev_gray, now_local, ret, hist>>
       ELSE IF prev_gray[m] = NoFrame
       THEN /\ prev_gray' = [prev_gray EXCEPT ![m] = frame[m]]
            /\ Goto(m, "m_sleep")
            /\ UNCHANGED <<now_local, ret, hist>>
       ELSE \E d \in MotionDetected(prev_gray[m], frame[m]) :
            IF Trigger(d, now, cool_down_until[m])
            THEN /\ now_local' = [now_local EXCEPT ![m] = now]
                 /\ ret' = [ret EXCEPT ![m] = "none"]
                 /\ hist' = [hist EXCEPT
                        !.gap_ok = @ /\ (hist.last_trigger = NoTime
                                         \/ now - hist.last_trigger >= Cooldown),
                        !.last_trigger = now,
                        !.detected[m] = d]
                 /\ Goto(m, "a_lock")
                 /\ UNCHANGED prev_gray
            ELSE /\ hist' = [hist EXCEPT !.detected[m] = d]
                 /\ Goto(m, "m_store")
                 /\ UNCHANGED <<prev_gray, now_local, ret>>
    /\ UNCHANGED <<locks, preview_frame, preview_running, recording, motion_shared,
                   device, faults, frame, output, cool_down_until, now>>

\* cool_down_until = now + 40 (line 291)
MotionCooldown(m) ==
    /\ pc[m] = "m_cooldown"
    /\ cool_down_until' = [cool_down_until EXCEPT ![m] = now_local[m] + Cooldown]
    /\ now_local' = [now_local EXCEPT ![m] = NoTime]   \* reassigned before its next use
    /\ Goto(m, "m_store")
    /\ UNCHANGED <<locks, preview_frame, preview_running, recording, motion_shared,
                   device, faults, frame, ret, output, prev_gray, now, hist>>

\* prev_gray = gray (line 293)
MotionStore(m) ==
    /\ pc[m] = "m_store"
    /\ prev_gray' = [prev_gray EXCEPT ![m] = frame[m]]
    /\ hist' = [hist EXCEPT !.detected[m] = FALSE]
    /\ Goto(m, "m_sleep")
    /\ UNCHANGED <<locks, preview_frame, preview_running, recording, motion_shared,
                   device, faults, frame, ret, output, cool_down_until, now_local,
                   now>>

\* time.sleep(0.1) (lines 268, 277, 294)
MotionSleep(m) ==
    /\ pc[m] = "m_sleep"
    /\ frame' = [frame EXCEPT ![m] = NoFrame]   \* reassigned before its next use
    /\ Goto(m, "m_head")
    /\ UNCHANGED <<locks, preview_frame, preview_running, recording, motion_shared,
                   device, faults, ret, output, motion_local, now, hist>>

MotionLoop(m) ==
    \/ MotionHead(m)
    \/ MotionFrameLock(m)
    \/ MotionRead(m)
    \/ MotionProcess(m)
    \/ StartRecordClipAsync(m)
    \/ MotionCooldown(m)
    \/ MotionStore(m)
    \/ MotionSleep(m)

\* ------------------------------------------------------------------ time
Tick ==
    /\ now < StartTime + MaxTicks * TickLen
    /\ now' = now + TickLen
    /\ UNCHANGED <<pc, locks, preview_frame, preview_running, recording, motion_shared,
                   device, faults, frame, ret, output, motion_local, hist>>

\* ------------------------------------------------------- specifications
\* The Clip Recorder with the preview loop, on a device that may raise.
Next ==
    \/ PreviewLoop
    \/ \E w \in Workers : RecordClip(w)
    \/ \E t \in Requesters : ApiRecordClip(t) \/ StartRecordClipAsync(t)

Spec == Init /\ [][Next]_vars

\* The same under fair scheduling: the preview thread runs whenever it can
\* again and again, every other started thread keeps taking steps; requests
\* need not arrive.  The device stops raising once MaxFaults calls have raised.
FairSpec ==
    /\ Spec
    /\ WF_vars(PreviewLoop)
    /\ \A w \in Workers : WF_vars(RecordClip(w))
    /\ \A t \in Requesters : WF_vars(StartRecordClipAsync(t))

\* Still Capture with the preview loop, on a device that may raise.
NextStill ==
    \/ PreviewLoop
    \/ \E t \in Requesters : ApiCaptureStill(t) \/ CaptureStill(t)

SpecStill == Init /\ [][NextStill]_vars

\* The preview loop on a device that does not raise: no except branch is taken.
PreviewLoopHealthy ==
    \/ PreviewHeadLock
    \/ PreviewCheck
    \/ PreviewCameraLock
    \/ PreviewCapture
    \/ PreviewFrameLock
    \/ PreviewPublish

\* The Motion Detector with the preview loop and the Clip Recorder it triggers,
\* on a device that does not raise; motion requests arrive one after the other
\* (each is issued after the one before has returned).
NoMotionCall == \A u \in Requesters : ~InMotionCall(u)

NextMotion ==
    \/ PreviewLoopHealthy
    \/ \E w \in Workers : RecordClip(w)
    \/ \E t \in Requesters : (NoMotionCall /\ ApiMotionOn(t)) \/ EnableMotion(t)
    \/ \E t \in Requesters : (NoMotionCall /\ ApiMotionOff(t)) \/ DisableMotion(t)
    \/ \E m \in MotionWorkers : MotionLoop(m)
    \/ Tick

SpecMotion == InitHealthy /\ [][NextMotion]_vars

\* Motion requests served by concurrent request threads, before the preview
\* loop has published its first frame.
MotionLoopNoFrame(m) ==
    \/ MotionHead(m)
    \/ MotionFrameLock(m)
    \/ MotionRead(m)
    \/ MotionProcess(m)
    \/ MotionSleep(m)

NextMotionRace ==
    \/ \E t \in Requesters : ApiMotionOn(t) \/ EnableMotion(t)
    \/ \E t \in Requesters : ApiMotionOff(t) \/ DisableMotion(t)
    \/ \E m \in MotionWorkers : MotionLoopNoFrame(m)

SpecMotionRace == Init /\ [][NextMotionRace]_vars

\* Every user of the device together: the preview loop, the Clip Recorder and
\* Still Capture, on a device that may raise.
NextCamera ==
    \/ PreviewLoop
    \/ \E w \in Workers : RecordClip(w)
    \/ \E t \in Requesters : ApiRecordClip(t) \/ StartRecordClipAsync(t)
    \/ \E t \in Requesters : ApiCaptureStill(t) \/ CaptureStill(t)

SpecCamera == Init /\ [][NextCamera]_vars

\* Every thread that takes a lock of the coordinator but the motion worker: the
\* preview loop, the Clip Recorder, Still Capture and a stream consumer.
NextServer ==
    \/ NextCamera
    \/ MjpegGenerator

SpecServer == Init /\ [][NextServer]_vars

\* The same under fair scheduling: every started call and every started worker
\* keeps taking steps; requests need not arrive.
FairSpecMotionRace ==
    /\ SpecMotionRace
    /\ \A t \in Requesters : WF_vars(EnableMotion(t)) /\ WF_vars(DisableMotion(t))
    /\ \A m \in MotionWorkers : WF_vars(MotionLoopNoFrame(m))

\* ---------------------------------------------------------------- claims
\* The recording body of record_clip: after self._recording = True, up to and
\* including the step that clears it.
RecordingBody == {"rc_output", "rc_start_lock", "rc_start", "rc_sleep", "rc_stop_lock",
                  "rc_stop", "rs_lock", "rs_stoprec", "rs_stop", "rs_config", "rs_start",
                  "rc_close", "rc_clear_lock", "rc_clear"}
InRecordingBody(w) == pc[w] \in RecordingBody
LiveWorkers == {w \in Workers : pc[w] \notin {"unborn", "done"}}

\* C1: at most one thread is inside the recording body of record_clip, the
\* session flag is set while one is, and a record_clip that found the flag set
\* (or has not yet tested it) holds neither the device lock nor a sink.
C1_OneRecordingSession ==
    /\ Cardinality({w \in Workers : InRecordingBody(w)}) <= 1
    /\ \A w \in Workers : InRecordingBody(w) => recording
    /\ \A w \in Workers :
          pc[w] \in {"rc_lock", "rc_test", "rc_return_none"} =>
             /\ camera_lock # w
             /\ output[w] = "none"

\* C1 witness: one worker records on the device while another record_clip
\* found the flag set and returns None.
C1_Witness ==
    \E w, v \in Workers :
        /\ pc[w] = "rc_sleep"
        /\ dev_recording = w
        /\ pc[v] = "rc_return_none"

\* C2 (as claimed): between an acceptance and the cleanup of the recording it
\* started no other request is accepted, so at most one accepted request's
\* worker exists that has not finished.
C2_OneAcceptedUntilCleanup == Cardinality(LiveWorkers) <= 1

\* C3: a start_record_clip_async that reads the session flag as true returns
\* False and changes nothing but its caller's position and the lock it releases.
C3_BusyChangesNothing ==
    [][\A t \in Requesters \cup MotionWorkers :
          (pc[t] = "a_check" /\ recording /\ pc'[t] # pc[t]) =>
             /\ ret'[t] = "false"
             /\ pc'[t] = AfterAsync(t)
             /\ \A u \in Threads \ {t} : pc'[u] = pc[u]
             /\ record_lock' = NoThread
             /\ UNCHANGED <<camera_lock, frame_lock, recording, preview_frame,
                            preview_running, device, faults, frame, output,
                            motion_shared, motion_local>>]_vars

\* C3 witness: a request was answered False while a recording is in progress.
C3_Witness ==
    \E t \in Requesters : pc[t] = "idle" /\ ret[t] = "false" /\ recording

\* C4: the session flag is true only while a worker is in the recording body
\* (a finished worker never leaves it set), and a worker whose device step
\* raised only runs its cleanup: it takes no further device step.
C4_FlagClearedAfterFailure ==
    /\ recording => \E w \in Workers : InRecordingBody(w)
    /\ \A w \in Workers :
          hist.raised[w] => pc[w] \in {"rc_close", "rc_clear_lock", "rc_clear"}

\* C4 witness: after a recording that raised has cleaned up, the flag was found
\* clear and a new recording session is under way.
C4_Witness ==
    /\ hist.failed_done
    /\ \E w \in Workers : pc[w] = "rc_sleep" /\ dev_recording = w

\* C5 (as claimed): every record_clip that set the session flag has run
\* _restart_camera by the time it clears the flag.
C5_RestartBeforeClear ==
    \A w \in Workers : pc[w] \in {"rc_clear_lock", "rc_clear"} => hist.restarted[w]

\* C6: the preview loop thread never ends, whatever the device raises in a frame
\* pull or in the restart sequence, and under fair scheduling with a device that
\* eventually stops failing every failed pull is followed by a published frame,
\* by the loop's own steps.
C6_PreviewNeverDies ==
    /\ [](pc[Preview] # "p_exit")
    /\ (hist.pfailed ~> ~hist.pfailed)

\* C6 witness: after a frame pull failed, the loop has pulled a frame and is
\* about to publish it.
C6_Witness ==
    /\ hist.pfailed
    /\ pc[Preview] = "p_publish"
    /\ frame[Preview] \in Frames

\* C7: capture_still takes the device lock and pulls from the device exactly
\* when the slot was empty at its read. A call that read a published frame
\* never waits for or holds the device lock and encodes the frame that was the
\* latest published one at its read; a call that read an empty slot encodes a
\* frame it pulled under the device lock.
C7_StillUsesDeviceIffEmpty ==
    /\ hist.published # NoFrame => preview_frame = hist.published
    /\ \A t \in Requesters :
          /\ (pc[t] \in {"cs_cam_lock", "cs_pull", "cs_raise"} \/ camera_lock = t)
                => hist.seen[t] = NoFrame
          /\ pc[t] = "cs_write" =>
                IF hist.seen[t] # NoFrame
                THEN ~hist.used_camera[t] /\ frame[t] = hist.seen[t]
                ELSE hist.used_camera[t] /\ frame[t] \in Frames

\* C7 witness: while the preview loop holds the device lock in its restart
\* sequence, one capture_still is about to encode the published frame it read
\* and another one a frame it pulled because it read an empty slot.
C7_Witness ==
    /\ camera_lock = Preview
    /\ pc[Preview] \in {"rs_stoprec", "rs_stop", "rs_config", "rs_start"}
    /\ \E t, u \in Requesters :
          /\ pc[t] = "cs_write" /\ hist.seen[t] # NoFrame /\ ~hist.used_camera[t]
          /\ pc[u] = "cs_write" /\ hist.seen[u] = NoFrame /\ hist.used_camera[u]

\* C8 (as claimed): any two motion-triggered recording requests, whichever
\* _motion_loop issued them and whatever enable_motion / disable_motion calls
\* lie between them, are at least the cooldown window (40 s) apart.
C8_MotionRateLimited == hist.gap_ok

\* C9 (as claimed): at most one motion-detection worker is alive, however the
\* enable_motion and disable_motion calls of concurrent request threads
\* interleave.
C9_OneMotionWorker == Cardinality({m \in MotionWorkers : IsAlive(m)}) <= 1

\* C10 (as claimed): once enable_motion has returned and no disable_motion has
\* been called since, motion_enabled is true and the motion worker is running.
C10_EnabledAndRunning ==
    hist.settled => motion_enabled /\ IsAlive(motion_thread)

\* The positions at which a thread's next step is a call on the device:
\* stop_recording, stop, configure, start (_restart_camera), capture_array
\* (preview loop, capture_still), start_recording, stop_recording (record_clip).
DeviceOpPcs == {"rs_stoprec", "rs_stop", "rs_config", "rs_start",
                "p_capture", "cs_pull", "rc_start", "rc_stop"}

\* C11: a thread about to call the device holds the device lock, so at most one
\* thread is at a device call, and every step that changes the device (or makes
\* it raise) is a step of the thread holding the device lock.
C11_DeviceOpsUnderLock ==
    /\ [](\A t \in Threads : pc[t] \in DeviceOpPcs => camera_lock = t)
    /\ [](Cardinality({t \in Threads : pc[t] \in DeviceOpPcs}) <= 1)
    /\ [][(device' # device \/ faults' # faults) =>
             /\ camera_lock \in Threads
             /\ pc[camera_lock] \in DeviceOpPcs
             /\ pc'[camera_lock] # pc[camera_lock]]_vars

\* C11 witness: a recording worker is at start_recording with the device lock
\* while the preview loop and a capture_still fallback wait for that lock.
C11_Witness ==
    \E w \in Workers, t \in Requesters :
        /\ pc[w] = "rc_start" /\ camera_lock = w
        /\ pc[Preview] = "p_cam_lock"
        /\ pc[t] = "cs_cam_lock"

\* api_status: "recording": camera._recording, read without a lock (line 478).
StatusRecording == recording

\* C12 (as claimed): from the return of an accepting start_record_clip_async
\* until the cleanup of the recording it launched, the session flag is true
\* and api_status reports recording = true.
C12_ActiveAtReturn ==
    LiveWorkers # {} => recording /\ StatusRecording

\* C13 (as claimed): from a worker's start_recording until its own
\* stop_recording the device keeps recording for that worker: no other thread
\* stops the recording or the pipeline in between.
C13_OnlyOwnStop ==
    \A w \in Workers :
        pc[w] \in {"rc_sleep", "rc_stop_lock", "rc_stop"} =>
            dev_recording = w /\ dev_started

\* The locks a thread holds.
Held(t) ==
    {l \in {"camera", "frame", "record"} :
        \/ l = "camera" /\ camera_lock = t
        \/ l = "frame" /\ frame_lock = t
        \/ l = "record" /\ record_lock = t}

\* The positions at which a thread's next step is the acquisition of a lock.
LockWaitPcs == {"p_head", "p_cam_lock", "p_frame_lock", "rs_lock",
                "rc_lock", "rc_start_lock", "rc_stop_lock", "rc_clear_lock",
                "a_lock", "cs_lock", "cs_cam_lock", "m_lock", "g_lock"}

\* C14: no thread holds two of the three locks, and a thread that holds a lock
\* is not waiting for a lock, so that no set of threads wait on each other.
C14_OneLockAtATime ==
    \A t \in Threads :
        /\ Cardinality(Held(t)) <= 1
        /\ Held(t) # {} => pc[t] \notin LockWaitPcs

\* C14 witness: the three locks are held by three threads at once (a recording
\* worker at start_recording, the stream consumer reading the slot, a request
\* testing the session flag) while the preview loop waits for the device lock.
C14_Witness ==
    /\ \E w \in Workers : camera_lock = w /\ pc[w] = "rc_start"
    /\ frame_lock = Streamer
    /\ \E t \in Requesters : record_lock = t /\ pc[t] = "a_check"
    /\ pc[Preview] = "p_cam_lock"

\* The positions at which a thread's next step is the end of a time.sleep:
\* the recording duration, the back-offs of the preview loop, the pacing of the
\* stream generator and of the motion worker.
SleepPcs == {"rc_sleep", "p_sleep1", "p_sleep2", "g_sleep", "m_sleep"}

\* C15: a sleeping thread does not hold the device lock.
C15_NoSleepUnderDeviceLock ==
    \A t \in Threads : pc[t] \in SleepPcs => camera_lock # t

\* C15 witness: during the duration sleep of a recording the preview loop has
\* taken the device lock and is about to pull a frame.
C15_Witness ==
    /\ \E w \in Workers : pc[w] = "rc_sleep" /\ dev_recording = w
    /\ camera_lock = Preview
    /\ pc[Preview] = "p_capture"

\* C16: a record_clip that takes the session lock to clear the flag has closed
\* the sink it created, whichever way it left its try block; and the flag is
\* cleared only by the last step of a worker, holding the session lock, its sink
\* closed and no device step left.
C16_CloseThenClear ==
    /\ [](\A w \in Workers :
            pc[w] \in {"rc_clear_lock", "rc_clear"} =>
                output[w] = "closed" /\ camera_lock # w)
    /\ [][(recording /\ ~recording') =>
             \E w \in Workers :
                /\ pc[w] = "rc_clear" /\ pc'[w] = "done"
                /\ record_lock = w
                /\ output[w] = "closed"
                /\ dev_recording' = dev_recording /\ dev_started' = dev_started]_vars

\* C16 witness: a worker whose device step raised has closed its sink and holds
\* the session lock to clear the flag.
C16_Witness ==
    \E w \in Workers :
        /\ pc[w] = "rc_clear"
        /\ record_lock = w
        /\ hist.raised[w]
        /\ output[w] = "closed"
        /\ recording

\* C17: an iteration of _motion_loop that declares motion at a time past the
\* cooldown deadline goes to start_record_clip_async, once, with the time it
\* read; any other iteration issues no request and leaves the deadline as it
\* is. On return of the request, accepted or not, the deadline becomes that
\* time + 40, and the deadline changes at no other step of a running worker.
C17_CooldownAdvances ==
    [][\A m \in MotionWorkers :
          /\ (pc[m] = "m_process" /\ pc'[m] # pc[m]) =>
                IF hist'.detected[m] /\ now > cool_down_until[m]
                THEN /\ pc'[m] = "a_lock"
                     /\ now_local'[m] = now
                     /\ cool_down_until'[m] = cool_down_until[m]
                ELSE /\ pc'[m] \in {"m_store", "m_sleep"}
                     /\ cool_down_until'[m] = cool_down_until[m]
          /\ (pc[m] \in {"a_check", "a_spawn"} /\ pc'[m] # pc[m]) =>
                /\ pc'[m] \in {"a_spawn", "m_cooldown"}
                /\ pc'[m] = "m_cooldown" => ret'[m] \in {"true", "false"}
          /\ (pc[m] = "m_cooldown" /\ pc'[m] # pc[m]) =>
                /\ cool_down_until'[m] = now_local[m] + Cooldown
                /\ pc'[m] = "m_store"
          /\ cool_down_until'[m] # cool_down_until[m] =>
                pc[m] = "m_cooldown" \/ pc'[m] = "dead"]_vars

\* C17 witness: a request of the motion worker was answered False (a recording
\* was in progress) and the deadline was advanced all the same.
C17_Witness ==
    \E m \in MotionWorkers :
        /\ pc[m] = "m_store"
        /\ ret[m] = "false"
        /\ cool_down_until[m] = now + Cooldown
        /\ recording

\* C18 (as claimed): once disable_motion has returned, and as long as
\* enable_motion is not called again, every motion worker eventually
\* terminates.
C18_DisableEventuallyStops ==
    hist.off ~> ((\A m \in MotionWorkers : ~IsAlive(m)) \/ ~hist.off)

\* The positions inside a `with self._frame_lock:` block: the test of
\* _preview_running and the publication in the preview loop, the reads of the
\* slot in capture_still, _motion_loop and mjpeg_generator.
FrameSlotPcs == {"p_check", "p_publish", "cs_read", "m_read", "g_read"}

\* C19: the slot holds nothing or the frame the preview loop published last; a
\* thread that writes or reads the slot holds the frame-slot lock; the slot
\* changes only by the publication step of the preview loop, to a frame, and
\* the steps of the readers on their copies leave it as it is.
C19_FrameSlot ==
    /\ [](preview_frame = hist.published)
    /\ [](\A t \in Threads : pc[t] \in FrameSlotPcs => frame_lock = t)
    /\ [][preview_frame' # preview_frame =>
             /\ pc[Preview] = "p_publish" /\ pc'[Preview] # "p_publish"
             /\ frame_lock = Preview
             /\ preview_frame' = frame[Preview]
             /\ preview_frame' \in Frames]_vars
    /\ [][preview_frame # NoFrame => preview_frame' # NoFrame]_vars

\* C19 witness: the stream consumer reads the populated slot under the lock
\* while a capture_still works on its copy of a frame that has been replaced
\* in the slot since.
C19_Witness ==
    /\ frame_lock = Streamer /\ pc[Streamer] = "g_read"
    /\ preview_frame \in Frames
    /\ \E t \in Requesters :
          /\ pc[t] = "cs_write"
          /\ hist.seen[t] # NoFrame
          /\ frame[t] = hist.seen[t]
          /\ frame[t] # preview_frame

\* C20 (as claimed): no worker thread launched for an accepted request leaves
\* record_clip through the early return of line 195.
C20_AcceptedIsRecorded ==
    \A w \in Workers : pc[w] # "rc_return_none"

\* The positions inside a `with self._record_lock:` block.
SessionFlagPcs == {"rc_test", "rc_clear", "a_check"}

\* The best-effort steps of _restart_camera, whose raise is swallowed inside
\* the `with self._camera_lock:` block (lines 113-120).
BestEffortPcs == {"rs_stoprec", "rs_stop"}

\* C21 (as claimed): whenever capture_array, configure, start, start_recording
\* or stop_recording raises, the device lock is released before the failure
\* is handled: the step that raises leaves the device lock free.
C21_ReleasedBeforeHandled ==
    [][(faults' # faults /\ camera_lock \in Threads /\ pc[camera_lock] # "rs_stop")
          => camera_lock' = NoThread]_vars

\* C21 (amended): a lock is held only by a thread inside the block of that
\* lock, never by one that handles or propagates a failure, has returned or
\* has ended. A device call whose raise leaves its block frees the device lock
\* in the step that raises and leaves the thread without any lock; a raise of
\* the best-effort stop_recording or stop of _restart_camera is swallowed with
\* the lock held and the sequence goes on to its next device call.
C21_NoLockLeftHeld ==
    /\ [](\A t \in Threads :
            /\ camera_lock = t => pc[t] \in DeviceOpPcs
            /\ frame_lock = t => pc[t] \in FrameSlotPcs
            /\ record_lock = t => pc[t] \in SessionFlagPcs)
    /\ [][\A t \in Threads :
            (faults' # faults /\ camera_lock = t) =>
                IF pc[t] \in BestEffortPcs
                THEN /\ camera_lock' = t
                     /\ pc'[t] \in {"rs_stop", "rs_config"}
                ELSE /\ camera_lock' = NoThread
                     /\ frame_lock' # t /\ record_lock' # t
                     /\ pc'[t] \notin DeviceOpPcs]_vars

\* C21 witness: start_recording (or stop_recording) of a worker has raised, the
\* worker is in its cleanup, and the preview loop has taken the device lock
\* since and is about to pull a frame.
C21_Witness ==
    \E w \in Workers :
        /\ hist.raised[w]
        /\ pc[w] \in {"rc_close", "rc_clear_lock", "rc_clear"}
        /\ camera_lock = Preview
        /\ pc[Preview] = "p_capture"
====
